---- MODULE Spec2Model ----
(***************************************************************************)
(* Model of src/app.py: a Streamlit script that keeps uploaded images in   *)
(* st.session_state["files"], asks a vision model for a QCM per image and  *)
(* grades the user's choice.  Every user interaction is one run of the     *)
(* script from the top; st.rerun() starts a second run inside the same     *)
(* interaction.                                                            *)
(*                                                                         *)
(* JSON values are records [t, n, s, items]; t is the Python type, n the   *)
(* integer, s the string as a sequence of characters, items the elements   *)
(* of a list (scalars).  "absent" is a key missing from a dict.            *)
(***************************************************************************)
EXTENDS Integers, Sequences, FiniteSets, TLC

\* ------------------------------------------------------------------ bounds
MaxFiles == 2          \* image files the user owns, of pairwise distinct bytes
MaxQuestions == 2      \* records in one model response
MaxOptions == 3        \* options in one record

\* ------------------------------------------------------------- JSON values
Absent == [t |-> "absent", n |-> 0, s |-> <<>>, items |-> <<>>]
Null == [t |-> "null", n |-> 0, s |-> <<>>, items |-> <<>>]
IntV(i) == [t |-> "int", n |-> i, s |-> <<>>, items |-> <<>>]
StrV(str) == [t |-> "str", n |-> 0, s |-> str, items |-> <<>>]
ListV(l) == [t |-> "list", n |-> 0, s |-> <<>>, items |-> l]

\* Python truth value of a JSON value (dict.get of a missing key is None).
Truthy(v) ==
  CASE v.t = "int" -> v.n # 0
    [] v.t = "str" -> v.s # <<>>
    [] v.t = "list" -> v.items # <<>>
    [] OTHER -> FALSE

\* x or default
OrElse(v, d) == IF Truthy(v) THEN v ELSE d

\* --------------------------------------------------------- string helpers
Whitespace == {" "}
DecimalChars == {"0", "1", "2", "3", "4", "5", "6", "7", "8", "9"}
\* "sup2" is the character U+00B2: str.isdigit() accepts it, int() does not.
DigitChars == DecimalChars \cup {"sup2"}

DigitVal(c) ==
  CASE c = "0" -> 0 [] c = "1" -> 1 [] c = "2" -> 2 [] c = "3" -> 3
    [] c = "4" -> 4 [] c = "5" -> 5 [] c = "6" -> 6 [] c = "7" -> 7
    [] c = "8" -> 8 [] c = "9" -> 9

RECURSIVE lstrip(_)
lstrip(str) ==
  IF str # <<>> /\ Head(str) \in Whitespace THEN lstrip(Tail(str)) ELSE str

RECURSIVE rstrip(_)
rstrip(str) ==
  IF str # <<>> /\ str[Len(str)] \in Whitespace
  THEN rstrip(SubSeq(str, 1, Len(str) - 1)) ELSE str

strip(str) == rstrip(lstrip(str))

isdigit(str) == str # <<>> /\ \A k \in 1..Len(str) : str[k] \in DigitChars

RECURSIVE DecimalValue(_)
DecimalValue(str) ==
  IF str = <<>> THEN 0
  ELSE 10 * DecimalValue(SubSeq(str, 1, Len(str) - 1)) + DigitVal(str[Len(str)])

\* int(str): [ok, val]; ok = FALSE is ValueError.
int(str) ==
  IF str # <<>> /\ \A k \in 1..Len(str) : str[k] \in DecimalChars
  THEN [ok |-> TRUE, val |-> DecimalValue(str)]
  ELSE [ok |-> FALSE, val |-> 0]

\* ------------------------------------------------ normalize_correct_indices
\* [ok, val]: val is the Python list of indices; ok = FALSE when int() raised.
RECURSIVE CollectIndices(_, _)
CollectIndices(items, acc) ==
  IF items = <<>> THEN [ok |-> TRUE, val |-> acc]
  ELSE LET item == Head(items) IN
       IF item.t = "int" THEN CollectIndices(Tail(items), Append(acc, item.n))
       ELSE IF item.t = "str" /\ isdigit(item.s)
            THEN IF int(item.s).ok
                 THEN CollectIndices(Tail(items), Append(acc, int(item.s).val))
                 ELSE [ok |-> FALSE, val |-> <<>>]
            ELSE CollectIndices(Tail(items), acc)

normalize_correct_indices(value) ==
  IF value.t = "int" THEN [ok |-> TRUE, val |-> <<value.n>>]
  ELSE IF value.t = "list" THEN CollectIndices(value.items, <<>>)
  ELSE IF value.t = "str" /\ isdigit(value.s)
       THEN IF int(value.s).ok
            THEN [ok |-> TRUE, val |-> <<int(value.s).val>>]
            ELSE [ok |-> FALSE, val |-> <<>>]
  ELSE [ok |-> TRUE, val |-> <<>>]

\* ------------------------------------------------------------ extract_json
\* A response text is [noise, doc]: doc is what the JSON in the text decodes
\* to (k = "nojson" when there is none), noise says whether prose surrounds
\* it.  A decoded doc is [k, n, qkey, questions, record]:
\*   k = "object": qkey says whether the key "questions" is absent, holds a
\*       list (questions) or something else; record holds the object's own
\*       question fields ("absent" for the keys it lacks);
\*   k = "array": a JSON array of n elements; k = "number": the number n.
NoData == [k |-> "nojson", n |-> 0, qkey |-> "absent", questions |-> <<>>,
           record |-> [isdict |-> FALSE, question |-> Absent, options |-> Absent,
                       correct_indices |-> Absent, correct_index |-> Absent,
                       explanation |-> Absent]]

\* json.loads of the whole text, then of the span from the first "{" to the
\* last "}"; "nojson" is the None result.
extract_json(text) ==
  IF ~text.noise /\ text.doc.k # "nojson" THEN text.doc
  ELSE IF text.doc.k = "object" THEN text.doc
  ELSE NoData

\* An object with no key at all is {}.
IsEmptyObject(data) ==
  /\ data.k = "object"
  /\ data.qkey = "absent"
  /\ data.record.question = Absent
  /\ data.record.options = Absent
  /\ data.record.correct_indices = Absent
  /\ data.record.correct_index = Absent
  /\ data.record.explanation = Absent

\* "not data" at line 104
Falsy(data) ==
  \/ data.k = "nojson"
  \/ IsEmptyObject(data)
  \/ data.k \in {"array", "number"} /\ data.n = 0

\* ---------------------------------------------------- normalize_mcq_payload
\* [ok, questions]; ok = FALSE is the TypeError of "questions" in <number>.
normalize_mcq_payload(payload) ==
  IF payload.k = "number" THEN [ok |-> FALSE, questions |-> <<>>]
  ELSE IF payload.k = "object" /\ payload.qkey = "list"
       THEN [ok |-> TRUE, questions |-> payload.questions]
  ELSE IF payload.k = "object" /\ payload.record.question # Absent
       THEN [ok |-> TRUE, questions |-> <<payload.record>>]
  ELSE [ok |-> TRUE, questions |-> <<>>]

\* ------------------------------------------------------------ generate_mcq
\* A response is [raises, text]: raises is "none", or the kind of exception
\* generate_content raised.  Result: [ok, quota, questions].
generate_mcq(response) ==
  IF response.raises # "none"
  THEN [ok |-> FALSE, quota |-> response.raises = "quota", questions |-> <<>>]
  ELSE LET data == extract_json(response.text) IN
       IF Falsy(data) THEN [ok |-> FALSE, quota |-> FALSE, questions |-> <<>>]
       ELSE [ok |-> normalize_mcq_payload(data).ok, quota |-> FALSE,
             questions |-> normalize_mcq_payload(data).questions]

\* ------------------------------------------------- question record (198-209)
\* (x or "").strip(): [ok, val]; ok = FALSE is the AttributeError of a value
\* that is truthy and not a string.
StripField(v) ==
  LET x == OrElse(v, StrV(<<>>)) IN
  IF x.t = "str" THEN [ok |-> TRUE, val |-> strip(x.s)]
  ELSE [ok |-> FALSE, val |-> <<>>]

\* item.get("correct_indices", item.get("correct_index"))
AnswerField(item) ==
  IF item.correct_indices # Absent THEN item.correct_indices
  ELSE item.correct_index

\* The dict appended for one raw record; ok = FALSE when building it raises
\* (item is no dict, a text field is no string, int() fails).  picked is the
\* state of the question's selection widget, the positions (1-based) of the
\* options the user has picked in it; the script sees only the options
\* themselves, as choice.
BuildQuestion(item) ==
  LET q == StripField(item.question)
      e == StripField(item.explanation)
      c == normalize_correct_indices(AnswerField(item))
  IN [ok |-> item.isdict /\ q.ok /\ e.ok /\ c.ok,
      val |-> [question |-> q.val,
               options |-> OrElse(item.options, ListV(<<>>)),
               correct_indices |-> c.val,
               explanation |-> e.val,
               choice |-> Null,
               checked |-> FALSE,
               picked |-> {}]]

\* The loop of 197-209 with a record that fails the validation of 236-240
\* left out of the list instead of stored.
RECURSIVE BuildItems_DropInvalid(_, _)
BuildItems_DropInvalid(raw, acc) ==
  IF raw = <<>> THEN [ok |-> TRUE, items |-> acc]
  ELSE LET b == BuildQuestion(Head(raw)) IN
       IF ~b.ok THEN [ok |-> FALSE, items |-> <<>>]
       ELSE IF b.val.question # <<>> /\ b.val.options.t = "list"
               /\ Len(b.val.options.items) >= 2
            THEN BuildItems_DropInvalid(Tail(raw), Append(acc, b.val))
            ELSE BuildItems_DropInvalid(Tail(raw), acc)

\* The for loop of lines 197-209: [ok, items].
RECURSIVE BuildItems(_, _)
BuildItems(raw, acc) ==
  IF raw = <<>> THEN [ok |-> TRUE, items |-> acc]
  ELSE LET b == BuildQuestion(Head(raw)) IN
       IF b.ok THEN BuildItems(Tail(raw), Append(acc, b.val))
       ELSE [ok |-> FALSE, items |-> <<>>]

\* ------------------------------------------------------ presentation (230-264)
\* The validity test of lines 236-240, negated.
IsValid(item) ==
  /\ item.question # <<>>
  /\ item.options.t = "list"
  /\ Len(item.options.items) >= 2

use_multi(item) == Len(item.correct_indices) > 1

\* What a freshly drawn widget returns: [] for st.multiselect, None for
\* st.radio(index=None).
WidgetDefault(item) == IF use_multi(item) THEN ListV(<<>>) ELSE Null

\* ------------------------------------------------------------------- state
\* files, selected_id: st.session_state["files"] / ["selected_id"].
\* An entry of files is [id, bytes, mcq_list]; mcq_list is [none, list]
\* (none = TRUE is Python's None).  The name and MIME type of an entry are
\* never read by the logic and are left out.
\* uploaded_files: what st.file_uploader returns, the files the uploader
\* widget holds; the widget keeps them from run to run until the user
\* removes them there.
\* out: what the last interaction showed: op, id and idx name the control
\* used; errors counts st.error calls; uncaught says an exception left the
\* script; warned and presented are the question numbers drawn as invalid and
\* as a quiz; verdict is the result of "Verifier la reponse", unknown its
\* "inconnue" marker, explained whether st.info showed the explanation; failed
\* says the except branch of 211-223 ran; raw is the list of raw records
\* generate_mcq returned to a generate request.
VARIABLES files, selected_id, uploaded_files, out

vars == <<files, selected_id, uploaded_files, out>>

None == 0

NoneList == [none |-> TRUE, list |-> <<>>]
SomeList(l) == [none |-> FALSE, list |-> l]

\* hashlib.sha256(file_bytes).hexdigest(): deterministic and, on the contents
\* modelled, free of collisions.
sha256(bytes) == 1000 + 37 * bytes

Ids(fs) == {fs[k].id : k \in 1..Len(fs)}

RECURSIVE FilesExcept(_, _)
\* [f for f in fs if f["id"] != id]
FilesExcept(fs, id) ==
  IF fs = <<>> THEN <<>>
  ELSE IF Head(fs).id # id THEN <<Head(fs)>> \o FilesExcept(Tail(fs), id)
  ELSE FilesExcept(Tail(fs), id)

\* ------------------------------------------------------ upload block (131-149)
\* One pass of the for loop over uploaded_files; st is [files, selected_id].
\* existing_ids always equals the ids of st.files, so it is read from there.
\* The loop without the "if file_id in existing_ids: continue" of 136-137.
RECURSIVE UploadLoop_NoDedup(_, _)
UploadLoop_NoDedup(ups, st) ==
  IF ups = <<>> THEN st
  ELSE UploadLoop_NoDedup(Tail(ups),
         [files |-> Append(st.files,
                      [id |-> sha256(Head(ups)), bytes |-> Head(ups),
                       mcq_list |-> NoneList]),
          selected_id |-> IF st.selected_id = None THEN sha256(Head(ups))
                          ELSE st.selected_id])

RECURSIVE UploadLoop(_, _)
UploadLoop(ups, st) ==
  IF ups = <<>> THEN st
  ELSE LET file_bytes == Head(ups)
           file_id == sha256(file_bytes)
       IN IF file_id \in Ids(st.files)
          THEN UploadLoop(Tail(ups), st)
          ELSE UploadLoop(Tail(ups),
                 [files |-> Append(st.files,
                              [id |-> file_id, bytes |-> file_bytes,
                               mcq_list |-> NoneList]),
                  selected_id |-> IF st.selected_id = None THEN file_id
                                  ELSE st.selected_id])

UploadBlock(ups, st) == UploadLoop(ups, st)

\* ----------------------------------------------------- selected lookup (174-176)
\* Position in fs of the entry whose id is sel, 0 when there is none.
SelectedPos(fs, sel) ==
  IF \E k \in 1..Len(fs) : fs[k].id = sel
  THEN CHOOSE k \in 1..Len(fs) :
         fs[k].id = sel /\ \A j \in 1..(k - 1) : fs[j].id # sel
  ELSE 0

\* ------------------------------------------------------------ render (225-264)
\* The question numbers (1-based idx) the loop warns about and draws.
Warned(l) == {k \in 1..Len(l) : ~IsValid(l[k])}
Presented(l) == {k \in 1..Len(l) : IsValid(l[k])}

\* item["choice"] = <widget value> for every question drawn (256, 264); the
\* widget of a question keeps the value item["choice"] already holds, or
\* returns its default when the question was just built.
RenderChoices(l, fresh) ==
  [k \in 1..Len(l) |->
     IF IsValid(l[k]) /\ fresh
     THEN [l[k] EXCEPT !.choice = WidgetDefault(l[k])]
     ELSE l[k]]

NoOut == [op |-> "start", id |-> None, idx |-> 0, errors |-> 0,
          failed |-> FALSE, uncaught |-> FALSE, warned |-> {}, presented |-> {},
          verdict |-> "none", unknown |-> FALSE, explained |-> FALSE,
          raw |-> <<>>]

\* What the tail of the script shows for the selected entry: the empty-list
\* error of 226-228 and the per-question warnings and quizzes.
Shown(fs, sel, o) ==
  LET p == SelectedPos(fs, sel) IN
  IF p = 0 \/ fs[p].mcq_list.none THEN o
  ELSE IF fs[p].mcq_list.list = <<>> THEN [o EXCEPT !.errors = o.errors + 1]
  ELSE [o EXCEPT !.warned = Warned(fs[p].mcq_list.list),
                 !.presented = Presented(fs[p].mcq_list.list)]

Init ==
  /\ files = <<>>
  /\ selected_id = None
  /\ uploaded_files = <<>>
  /\ out = NoOut

\* -------------------------------------------------------- grading (266-297)
\* val in options
In(val, options) == \E k \in 1..Len(options) : options[k] = val

\* options.index(val), 0-based
index(options, val) ==
  (CHOOSE k \in 1..Len(options) :
     options[k] = val /\ \A j \in 1..(k - 1) : options[j] # val) - 1

user_indices(item) ==
  LET selected_choice == item.choice
      options == item.options.items
  IN IF selected_choice.t = "list"
     THEN {index(options, selected_choice.items[k]) :
             k \in {j \in 1..Len(selected_choice.items) :
                      In(selected_choice.items[j], options)}}
     ELSE {index(options, selected_choice)}

correct_set(item) ==
  {item.correct_indices[k] :
     k \in {j \in 1..Len(item.correct_indices) :
              0 <= item.correct_indices[j]
              /\ item.correct_indices[j] < Len(item.options.items)}}

\* ", ".join(options[i] for i in sorted(correct_set)) raises TypeError when
\* one of these options is no string.
JoinRaises(item) ==
  \E i \in correct_set(item) : item.options.items[i + 1].t # "str"

\* The body of the "Verifier la reponse" branch: [verdict, unknown,
\* explained, uncaught].
Grade(item) ==
  IF ~Truthy(item.choice)
  THEN [verdict |-> "NoSelection", unknown |-> FALSE, explained |-> FALSE,
        uncaught |-> FALSE]
  ELSE IF item.choice.t # "list" /\ ~In(item.choice, item.options.items)
  THEN [verdict |-> "none", unknown |-> FALSE, explained |-> FALSE,
        uncaught |-> TRUE]
  ELSE IF correct_set(item) # {} /\ user_indices(item) = correct_set(item)
  THEN [verdict |-> "Correct", unknown |-> FALSE,
        explained |-> item.explanation # <<>>, uncaught |-> FALSE]
  ELSE IF correct_set(item) # {} /\ JoinRaises(item)
  THEN [verdict |-> "none", unknown |-> FALSE, explained |-> FALSE,
        uncaught |-> TRUE]
  ELSE [verdict |-> "Incorrect", unknown |-> correct_set(item) = {},
        explained |-> item.explanation # <<>>, uncaught |-> FALSE]

\* ------------------------------------------------------------ script runs
\* A session state is [files, selected_id, uploaded_files, out].  Each
\* operator below is one user interaction: the script run it triggers, from
\* the upload block to the last line, and the run st.rerun() starts.
Cur == [files |-> files, selected_id |-> selected_id,
        uploaded_files |-> uploaded_files, out |-> out]

\* Lines 131-149 on the session state st.
Top(st) ==
  LET u == UploadBlock(st.uploaded_files,
                       [files |-> st.files, selected_id |-> st.selected_id])
  IN [st EXCEPT !.files = u.files, !.selected_id = u.selected_id]

\* The rest of a run in which no button is pressed.
Finish(st, o) == [st EXCEPT !.out = Shown(st.files, st.selected_id, o)]

\* The user drops a file with these bytes into the uploader.
UploadRun(st, bytes) ==
  LET s1 == Top([st EXCEPT !.uploaded_files = Append(st.uploaded_files, bytes)])
  IN Finish(s1, [NoOut EXCEPT !.op = "upload", !.id = sha256(bytes)])

\* The user removes the k-th file from the uploader widget.
RemoveRun(st, k) ==
  LET ups == st.uploaded_files
      s1 == Top([st EXCEPT !.uploaded_files =
                   SubSeq(ups, 1, k - 1) \o SubSeq(ups, k + 1, Len(ups))])
  IN Finish(s1, [NoOut EXCEPT !.op = "remove", !.id = sha256(ups[k])])

\* "Voir" (159-161)
VoirRun(st, id) ==
  LET s1 == Top(st)
      s2 == [s1 EXCEPT !.selected_id = id]
      s3 == Top(s2)
  IN Finish(s3, [NoOut EXCEPT !.op = "voir", !.id = id])

\* The handler of "Supprimer" (162-171), before st.rerun().
SupprimerHandler(st, id) ==
  LET remaining == FilesExcept(st.files, id)
  IN [st EXCEPT !.files = remaining,
                !.selected_id =
                  IF st.selected_id = id
                  THEN IF remaining # <<>> THEN remaining[1].id ELSE None
                  ELSE st.selected_id]

\* "Supprimer" (162-172): the handler, then the run st.rerun() starts.
SupprimerRun(st, id) ==
  LET s1 == Top(st)
      s2 == SupprimerHandler(s1, id)
      s3 == Top(s2)
  IN Finish(s3, [NoOut EXCEPT !.op = "supprimer", !.id = id])

\* "Generer le QCM" / "Nouvelle question" (188-223) with the response the
\* model call gets, then the presentation of the new list.
GenerateRun(st, next_clicked, response) ==
  LET s1 == Top(st)
      p == SelectedPos(s1.files, s1.selected_id)
      s2 == IF next_clicked
            THEN [s1 EXCEPT !.files[p].mcq_list = NoneList]
            ELSE s1
      payload == generate_mcq(response)
      built == IF payload.ok THEN BuildItems(payload.questions, <<>>)
               ELSE [ok |-> FALSE, items |-> <<>>]
      o == [NoOut EXCEPT !.op = IF next_clicked THEN "nouvelle" ELSE "generer",
                         !.id = s1.selected_id,
                         !.raw = payload.questions]
  IN IF built.ok
     THEN Finish([s2 EXCEPT !.files[p].mcq_list =
                    SomeList(RenderChoices(built.items, TRUE))], o)
     ELSE [s2 EXCEPT !.out = [o EXCEPT !.errors = 1, !.failed = TRUE]]

\* The widget value a user gets by picking the options at positions P
\* (1-based) of question idx: the option itself for st.radio, the list of
\* the options picked for st.multiselect.
RECURSIVE Picked(_, _, _)
Picked(options, P, k) ==
  IF k > Len(options) THEN <<>>
  ELSE (IF k \in P THEN <<options[k]>> ELSE <<>>) \o Picked(options, P, k + 1)

WidgetValue(item, P) ==
  IF use_multi(item) THEN ListV(Picked(item.options.items, P, 1))
  ELSE item.options.items[CHOOSE k \in P : TRUE]

\* The user changes the selection widget of question idx (249-264).
ChoisirRun(st, idx, P) ==
  LET s1 == Top(st)
      p == SelectedPos(s1.files, s1.selected_id)
      item == s1.files[p].mcq_list.list[idx]
      s2 == [s1 EXCEPT !.files[p].mcq_list.list[idx].choice =
                         WidgetValue(item, P),
                       !.files[p].mcq_list.list[idx].picked = P]
  IN Finish(s2, [NoOut EXCEPT !.op = "choisir", !.id = s1.selected_id,
                              !.idx = idx])

\* "Verifier la reponse" of question idx (266-297).
VerifierRun(st, idx) ==
  LET s1 == Top(st)
      p == SelectedPos(s1.files, s1.selected_id)
      g == Grade(s1.files[p].mcq_list.list[idx])
      s2 == Finish(s1, [NoOut EXCEPT !.op = "verifier", !.id = s1.selected_id,
                                 !.idx = idx, !.verdict = g.verdict,
                                 !.unknown = g.unknown,
                                 !.explained = g.explained,
                                 !.uncaught = g.uncaught])
  IN \* an exception at question idx ends the loop of line 230 there
     IF g.uncaught
     THEN [s2 EXCEPT !.out.warned = {k \in s2.out.warned : k <= idx},
                     !.out.presented = {k \in s2.out.presented : k <= idx}]
     ELSE s2

\* ------------------------------------------------------------------ inputs
SeqsOf(S, lo, hi) == UNION {[1..n -> S] : n \in lo..hi}

LabelA == StrV(<<"A">>)
LabelB == StrV(<<"B">>)
\* an option whose text is empty, as in "options": ["", "A", "B"]
LabelEmpty == StrV(<<>>)
Labels == {LabelA, LabelB, LabelEmpty}

Record(q, o, ci, cx, e) ==
  [isdict |-> TRUE, question |-> q, options |-> o, correct_indices |-> ci,
   correct_index |-> cx, explanation |-> e]

\* an element of "questions" that is no object (a string, a number)
NonDict == [Record(Absent, Absent, Absent, Absent, Absent) EXCEPT !.isdict = FALSE]

ObjectDoc(qkey, questions, record) ==
  [k |-> "object", n |-> 0, qkey |-> qkey, questions |-> questions,
   record |-> record]
NumberDoc(n) == [NoData EXCEPT !.k = "number", !.n = n]
ArrayDoc(n) == [NoData EXCEPT !.k = "array", !.n = n]

Raises(kind) == [raises |-> kind, text |-> [noise |-> FALSE, doc |-> NoData]]
Text(noise, doc) == [raises |-> "none", text |-> [noise |-> noise, doc |-> doc]]

\* Responses that make the call, the extraction or the normalization fail, or
\* that hold no question.
OddResponses ==
  {Raises("quota"), Raises("other")}
  \cup {Text(b, d) : b \in BOOLEAN,
                    d \in {NoData, NumberDoc(0), NumberDoc(5), ArrayDoc(0),
                           ArrayDoc(2),
                           ObjectDoc("absent", <<>>, NonDict),
                           ObjectDoc("other", <<>>, NonDict),
                           ObjectDoc("absent", <<>>,
                             Record(Absent, Absent, IntV(0), Absent, Absent))}}

\* Records that differ in the shape of question and options.
QuestionShapes ==
  {Absent, StrV(<<>>), StrV(<<" ">>), StrV(<<" ", "Q", " ">>), IntV(5)}
OptionShapes ==
  {Absent, StrV(<<"A", "B">>), ListV(<<LabelA>>), ListV(<<LabelA, LabelB>>)}
ShapeRecords ==
  {Record(q, o, ListV(<<IntV(0)>>), Absent, StrV(<<"E", " ">>)) :
     q \in QuestionShapes, o \in OptionShapes}
  \cup {NonDict,
        Record(StrV(<<"Q">>), ListV(<<LabelA, LabelB>>), ListV(<<IntV(0)>>),
               Absent, IntV(1))}

\* Records that differ in the options and in the answer the model gave.
AnswerItems ==
  {IntV(i) : i \in (-1)..MaxOptions} \cup {StrV(<<"1">>), StrV(<<"x">>), Null}
AnswerShapes ==
  {Absent, Null, IntV(1), StrV(<<"0">>), StrV(<<"1", "0">>), StrV(<<"x">>),
   StrV(<<"sup2">>)}
  \cup {ListV(l) : l \in SeqsOf(AnswerItems, 0, 2)}
  \cup {ListV(<<IntV(0), StrV(<<"sup2">>)>>)}
AnswerRecords ==
  {Record(StrV(<<"Q">>), ListV(o), ci, Absent, StrV(<<"E">>)) :
     o \in SeqsOf(Labels, 2, MaxOptions), ci \in AnswerShapes}
  \cup {Record(StrV(<<"Q">>), ListV(<<LabelA, LabelB>>), ci, IntV(1), Absent) :
          ci \in {Absent, Null}}

QuizResponses ==
  OddResponses
  \cup {Text(FALSE, ObjectDoc("list", l, NonDict)) :
          l \in SeqsOf(ShapeRecords, 0, MaxQuestions)}
  \cup {Text(FALSE, ObjectDoc("list", <<r>>, NonDict)) : r \in AnswerRecords}
  \cup {Text(TRUE, ObjectDoc("absent", <<>>, r)) :
          r \in {x \in AnswerRecords : x.correct_index # Absent}}

\* The responses of the session specification: one failure of each stage and
\* a few question lists.
SingleRecord ==
  Record(StrV(<<"Q">>), ListV(<<LabelA, LabelB>>), ListV(<<IntV(1)>>), Absent,
         StrV(<<"E">>))
InvalidRecord ==
  Record(StrV(<<>>), ListV(<<LabelA>>), Absent, Absent, Absent)
\* an answer that names an option the record does not have
StrayRecord ==
  Record(StrV(<<"Q">>), ListV(<<LabelA, LabelB>>), ListV(<<IntV(1), IntV(2)>>),
         Absent, Absent)
SessionResponses ==
  {Raises("quota"), Text(FALSE, NoData), Text(FALSE, NumberDoc(5)),
   Text(FALSE, ObjectDoc("list", <<SingleRecord>>, NonDict)),
   Text(TRUE, ObjectDoc("list", <<InvalidRecord, StrayRecord>>, NonDict)),
   Text(FALSE, ObjectDoc("list", <<SingleRecord, NonDict>>, NonDict))}

\* ----------------------------------------------------------------- actions
Apply(st) ==
  \E s \in {st} :
    /\ files' = s.files
    /\ selected_id' = s.selected_id
    /\ uploaded_files' = s.uploaded_files
    /\ out' = s.out

\* The question lists the script draws: those of the selected entry.
DrawnList(st) ==
  LET p == SelectedPos(st.files, st.selected_id) IN
  IF p = 0 \/ st.files[p].mcq_list.none THEN <<>>
  ELSE st.files[p].mcq_list.list

\* The selections the widget of an item offers.
Selections(item) ==
  IF use_multi(item) THEN SUBSET (1..Len(item.options.items))
  ELSE {{k} : k \in 1..Len(item.options.items)}

\* A file sits in the uploader at most once.
Upload ==
  \E bytes \in 1..MaxFiles :
    /\ \A k \in 1..Len(uploaded_files) : uploaded_files[k] # bytes
    /\ Apply(UploadRun(Cur, bytes))

RemoveUpload ==
  \E k \in 1..Len(uploaded_files) : Apply(RemoveRun(Cur, k))

Voir == \E id \in Ids(files) : Apply(VoirRun(Cur, id))

Supprimer == \E id \in Ids(files) : Apply(SupprimerRun(Cur, id))

Generer ==
  /\ SelectedPos(files, selected_id) # 0
  /\ \E response \in SessionResponses : Apply(GenerateRun(Cur, FALSE, response))

Nouvelle ==
  /\ SelectedPos(files, selected_id) # 0
  /\ \E response \in SessionResponses : Apply(GenerateRun(Cur, TRUE, response))

Choisir ==
  \E idx \in Presented(DrawnList(Cur)) :
    \E P \in Selections(DrawnList(Cur)[idx]) : Apply(ChoisirRun(Cur, idx, P))

Verifier ==
  \E idx \in Presented(DrawnList(Cur)) : Apply(VerifierRun(Cur, idx))

Next ==
  \/ Upload
  \/ RemoveUpload
  \/ Voir
  \/ Supprimer
  \/ Generer
  \/ Nouvelle
  \/ Choisir
  \/ Verifier

Spec == Init /\ [][Next]_vars

\* ------------------------------------------------- the quiz of one image
\* The session after one upload and one "Generer le QCM", for every response
\* of QuizResponses; from there the user answers and checks.
InitQuiz ==
  \E response \in QuizResponses :
    \E st \in {GenerateRun(
                UploadRun([files |-> <<>>, selected_id |-> None,
                           uploaded_files |-> <<>>, out |-> NoOut], 1),
                FALSE, response)} :
       /\ files = st.files
       /\ selected_id = st.selected_id
       /\ uploaded_files = st.uploaded_files
       /\ out = st.out

NextQuiz ==
  \/ Choisir
  \/ Verifier

SpecQuiz == InitQuiz /\ [][NextQuiz]_vars

\* ------------------------------------------------- the store of images
\* Upload, select, delete and generate alone.
NextStore ==
  \/ Upload
  \/ RemoveUpload
  \/ Voir
  \/ Supprimer
  \/ Generer
  \/ Nouvelle

SpecStore == Init /\ [][NextStore]_vars

\* ------------------------------------------------------------------ claims
NoDuplicateIds ==
  \A j, k \in 1..Len(files) : files[j].id = files[k].id => j = k

ReuploadIsNoOp ==
  (out'.op = "upload" /\ out'.id \in Ids(files))
    => (files' = files /\ selected_id' = selected_id)

\* C4: after any sequence of upload, select, delete and generate actions the
\* store holds no two entries with the same identifier, and uploading bytes
\* whose identifier is already in the store changes neither an entry (its
\* question list included) nor the selection.
C4_NoDuplicateEntries == [][NoDuplicateIds' /\ ReuploadIsNoOp]_vars

\* A re-upload has happened: the last interaction was an upload, yet the
\* entry of that identifier holds a generated question list.
C4_Witness ==
  /\ out.op = "upload"
  /\ \E k \in 1..Len(files) :
       files[k].id = out.id /\ ~files[k].mcq_list.none

SelectionInStore == selected_id = None \/ selected_id \in Ids(files)

\* C5: deleting the selected image removes its entry and moves the selection
\* to an image that remains, or to none when none remains; deleting another
\* image leaves the selection alone; the selection is always none or the
\* identifier of an entry of the store.
C5_DeleteMovesSelection ==
  [][/\ out'.op = "supprimer" =>
          /\ out'.id \notin Ids(files')
          /\ IF selected_id = out'.id
             THEN IF files' # <<>> THEN selected_id' \in Ids(files')
                  ELSE selected_id' = None
             ELSE selected_id' = selected_id
     /\ SelectionInStore']_vars

\* The question the last "Verifier la reponse" was about.
Checked == DrawnList(Cur)[out.idx]

\* correct_indices as stored, taken as a set.
StoredSet(item) ==
  {item.correct_indices[k] : k \in 1..Len(item.correct_indices)}

\* The 0-based positions of the options picked in the widget.
PickedSet(item) == {k - 1 : k \in item.picked}

\* C1: for a non-empty selection the check yields Correct exactly when the
\* stored correct_indices, as a set, is non-empty and equals the set of
\* indices the selected labels resolve to, and Incorrect otherwise.
C1_CorrectIffStoredSetMatches ==
  (out.op = "verifier" /\ Checked.picked # {}) =>
    /\ out.verdict \in {"Correct", "Incorrect"}
    /\ out.verdict = "Correct" <=>
         (StoredSet(Checked) # {} /\ StoredSet(Checked) = user_indices(Checked))

\* C2: when correct_indices is a non-empty set of valid positions, picking
\* exactly the options at those positions is Correct and picking the options
\* at any other non-empty set of positions is Incorrect, whatever the options.
C2_PositionsDecideVerdict ==
  (/\ out.op = "verifier"
   /\ Checked.picked # {}
   /\ StoredSet(Checked) # {}
   /\ StoredSet(Checked) \subseteq 0..(Len(Checked.options.items) - 1)) =>
    out.verdict = IF PickedSet(Checked) = StoredSet(Checked) THEN "Correct"
                  ELSE "Incorrect"

\* C3: a check yields NoSelection, and shows no explanation, exactly when the
\* user has picked no option of the question; with an option picked the
\* verdict is Correct or Incorrect.
C3_NoSelectionIffNothingPicked ==
  out.op = "verifier" =>
    /\ out.verdict = "NoSelection" <=> Checked.picked = {}
    /\ out.verdict = "NoSelection" => ~out.explained
    /\ Checked.picked # {} => out.verdict \in {"Correct", "Incorrect"}

\* ---- C6
\* A raw record fails the minimum shape: no or empty question text, or
\* options missing, not a list, or shorter than 2.
RawInvalid(r) ==
  \/ r.question.t \in {"absent", "null"}
  \/ r.question.t = "str" /\ \A k \in 1..Len(r.question.s) : r.question.s[k] = " "
  \/ r.options.t # "list"
  \/ Len(r.options.items) < 2

\* A raw record whose fields are of the JSON types the prompt asks for, or
\* missing: an object, its texts strings, its answer integers.
WellTyped(r) ==
  /\ r.isdict
  /\ r.question.t \in {"absent", "null", "str"}
  /\ r.explanation.t \in {"absent", "null", "str"}
  /\ AnswerField(r).t \in {"absent", "null", "int", "list"}
  /\ \A k \in 1..Len(AnswerField(r).items) : AnswerField(r).items[k].t = "int"

CheckedFlags(l) == [k \in 1..Len(l) |-> l[k].checked]

\* C7: after a check of a question its checked flag is true (stated here for
\* the checks that grade a selection, as Correct or Incorrect); the flag is
\* false from the generation on; a check changes no other question's flag.
C7_CheckSetsChecked ==
  [][/\ out'.op = "verifier" =>
          /\ out'.verdict \in {"Correct", "Incorrect"} =>
               DrawnList(Cur)'[out'.idx].checked = TRUE
          /\ \A k \in 1..Len(DrawnList(Cur)) :
               k # out'.idx =>
                 DrawnList(Cur)'[k].checked = DrawnList(Cur)[k].checked
     /\ (out'.op \in {"generer", "nouvelle"} /\ ~out'.failed) =>
          \A k \in 1..Len(DrawnList(Cur)') : DrawnList(Cur)'[k].checked = FALSE
     /\ out'.op = "choisir" =>
          CheckedFlags(DrawnList(Cur)') = CheckedFlags(DrawnList(Cur))]_vars

\* ---- C8
\* Every stored correct index is a position of the question's own options.
IndicesValid(item) ==
  \A k \in 1..Len(item.correct_indices) :
    /\ 0 <= item.correct_indices[k]
    /\ item.options.t = "list"
    /\ item.correct_indices[k] < Len(item.options.items)

\* The correct_indices of the questions stored for image id, in order.
StoredIndices(fs, id) ==
  [k \in 1..Len(fs[SelectedPos(fs, id)].mcq_list.list) |->
     fs[SelectedPos(fs, id)].mcq_list.list[k].correct_indices]

\* C8: every stored question's correct_indices holds only positions of its
\* own options, whatever the payload carried, and nothing but a generation
\* (or the deletion of the image) changes a stored correct_indices.
C8_StoredIndicesValid ==
  [][/\ \A f \in 1..Len(files') :
          \A k \in 1..Len(files'[f].mcq_list.list) :
            IndicesValid(files'[f].mcq_list.list[k])
     /\ out'.op \in {"choisir", "verifier", "voir", "upload", "remove"} =>
          \A id \in Ids(files) :
            /\ id \in Ids(files')
            /\ StoredIndices(files', id) = StoredIndices(files, id)]_vars

\* ---- C9
\* The widget a drawn question got: st.multiselect returns a list.
IsMultiSelect(item) == item.choice.t = "list"

\* C9: a question is drawn as a multi-select exactly when its correct_indices
\* set has more than one member, and its mode never changes after the
\* generation.
C9_ModeFollowsAnswerSet ==
  [][/\ \A k \in Presented(DrawnList(Cur)') :
          IsMultiSelect(DrawnList(Cur)'[k]) <=>
            Cardinality(StoredSet(DrawnList(Cur)'[k])) > 1
     /\ out'.op \in {"choisir", "verifier"} =>
          \A k \in Presented(DrawnList(Cur)) :
            IsMultiSelect(DrawnList(Cur)'[k]) <=> IsMultiSelect(DrawnList(Cur)[k])]_vars

\* ---- C10
McqOf(fs, id) ==
  LET p == SelectedPos(fs, id) IN
  IF p = 0 THEN NoneList ELSE fs[p].mcq_list

\* C10: a generate request replaces the selected image's question list only
\* when call, extraction and normalization succeed; when one fails, one error
\* is shown, nothing is raised past the handler and the list stored before is
\* still stored, whichever button asked; no other image's list changes.
C10_FailedGenerateKeepsList ==
  [][out'.op \in {"generer", "nouvelle"} =>
       /\ out'.failed =>
            /\ out'.errors = 1
            /\ ~out'.uncaught
            /\ McqOf(files', selected_id) = McqOf(files, selected_id)
       /\ Ids(files') = Ids(files)
       /\ \A id \in Ids(files) \ {selected_id} :
            McqOf(files', id) = McqOf(files, id)]_vars

====
